---- MODULE Spec2Model ----
(***************************************************************************)
(* Model of src/main.rs: the bridge between niri's event stream and the    *)
(* System76 scheduler.  main() connects to the niri socket and to the      *)
(* system bus, builds the scheduler proxy, asks niri for the event stream  *)
(* and then loops over the events: WindowsChanged replaces the window      *)
(* cache, WindowFocusChanged{Some(id)} looks the id up in the cache and    *)
(* calls set_foreground_process with the pid of the window found.          *)
(*                                                                         *)
(* Option<T> values are sequences of length at most one: <<>> is None and  *)
(* <<v>> is Some(v).  A window is modelled by the two fields main() reads  *)
(* to decide what it does, id and pid.                                     *)
(***************************************************************************)
EXTENDS Integers, Sequences, FiniteSets, TLC

\* ------------------------------------------------------------------ bounds
\* What the event source delivers in one run: arbitrary events of a total
\* size of at most MaxLoad, where an event counts one plus the number of
\* windows it lists ...
MaxLoad == 5
\* ... or at most MaxScenarioEvents events of the end-to-end scenario's
\* alphabet.
MaxScenarioEvents == 5

\* ------------------------------------------------------------ value spaces
None == <<>>

Some(v) == <<v>>

Window(id, pid) == [id |-> id, pid |-> pid]

\* The windows niri reports: a window with a pid, the same window id
\* without a pid, a second window with a pid, and the second window id
\* with a pid that is negative as an i32.
Records ==
  { Window(1, Some(100)), Window(1, None),
    Window(2, Some(200)), Window(2, Some(-1)) }

\* The ids a focus change may carry; 3 is in no window list built of Records.
FocusIds == {1, 2, 3}

SeqsUpTo(S, n) == UNION { [1..k -> S] : k \in 0..n }

WindowsChanged(ws) == [kind |-> "WindowsChanged", windows |-> ws, id |-> None]

WindowFocusChanged(oid) == [kind |-> "WindowFocusChanged", windows |-> <<>>, id |-> oid]

OtherEvent == [kind |-> "Other", windows |-> <<>>, id |-> None]

\* The two window lists and the three focus changes of the end-to-end
\* scenario: {1:100, 2:200}, {3:300}, focus on 1, 2, 3.
ScenarioSnapshots ==
  { <<Window(1, Some(100)), Window(2, Some(200))>>, <<Window(3, Some(300))>> }

ScenarioEvents ==
  { WindowsChanged(ws) : ws \in ScenarioSnapshots }
    \cup { WindowFocusChanged(Some(i)) : i \in FocusIds }

\* Pids over the range of i32, for the conversion to u32: 0, small values,
\* the values around 2^16, the largest and the smallest i32, -1.
PidSamples ==
  { 0, 1, 100, 65535, 65536, 2147483647,
    -1, -100, -65536, -2147483647, -2147483647 - 1 }

\* The window lists of one window with a sample pid.
SampleSnapshots == { << Window(1, Some(p)) >> : p \in PidSamples }

\* The replies niri can give to Request::EventStream: Ok(Response::Handled),
\* Ok(another response), Err(message).
Replies == {"Handled", "OtherResponse", "ErrReply"}

\* ------------------------------------------------------------------- state
VARIABLES
  pc,         \* where main() is: "connect", "system_bus", "proxy",
              \* "subscribe", "streaming", "done"
  result,     \* what main() returned: "none" while it runs, "Ok", or the
              \* error the ? operator propagated
  failure,    \* the startup call that returned an error: "none", "connect",
              \* "system_bus", "proxy", "send"
  reply,      \* niri's reply to Request::EventStream, "none" before it
  source,     \* the niri connection as read_event sees it: "open", "closed"
  windows,    \* the window cache
  processed,  \* the events read_event has yielded so far, in order
  calls,      \* the set_foreground_process calls made, in order
  log         \* the messages logged, in order

vars == <<pc, result, failure, reply, source, windows, processed, calls, log>>

\* ----------------------------------------------------------- pure helpers
\* Find with the predicate dropped: windows.first()
Find_First(ws, id) == IF ws = <<>> THEN None ELSE Some(Head(ws))

\* Find returning the last record with the id: windows.iter().rfind(...)
RECURSIVE Find_Last(_, _)
Find_Last(ws, id) ==
  IF ws = <<>> THEN None
  ELSE IF ws[Len(ws)].id = id THEN Some(ws[Len(ws)])
  ELSE Find_Last(SubSeq(ws, 1, Len(ws) - 1), id)

\* windows.iter().find(|window| window.id == id)
RECURSIVE Find(_, _)
Find(ws, id) ==
  IF ws = <<>> THEN None
  ELSE IF Head(ws).id = id THEN Some(Head(ws))
  ELSE Find(Tail(ws), id)

\* The conversion with a negative pid replaced by 0:
\* u32::try_from(pid).unwrap_or(0)
AsU32_OrZero(pid) ==
  IF pid < 0 THEN [hi |-> 0, lo |-> 0]
  ELSE [hi |-> (pid \div 65536) % 65536, lo |-> pid % 65536]

\* pid as u32: the i32 pid reinterpreted as an unsigned 32-bit value.  The
\* u32 is written as its two 16-bit halves, value = hi * 65536 + lo, so a
\* value of 2^31 or more can be represented.
AsU32(pid) == [hi |-> (pid \div 65536) % 65536, lo |-> pid % 65536]

\* The u32 whose value is the non-negative n.
U32(n) == [hi |-> n \div 65536, lo |-> n % 65536]

\* Process exit status of fn main() -> std::io::Result<()>.
ExitCode == IF result = "Ok" THEN 0 ELSE 1

\* The size of the event sequence h.
RECURSIVE Load(_)
Load(h) == IF h = <<>> THEN 0 ELSE 1 + Len(Head(h).windows) + Load(Tail(h))

\* The window lists the event source can still deliver after the events
\* processed so far.
Snapshots ==
  (IF Load(processed) < MaxLoad
     THEN SeqsUpTo(Records, MaxLoad - Load(processed) - 1)
     ELSE {})
    \cup ScenarioSnapshots

\* The event source can deliver the event e next.
Deliverable(e) ==
  LET h == Append(processed, e)
  IN  \/ Load(h) <= MaxLoad
      \/ /\ Len(h) <= MaxScenarioEvents
         /\ \A i \in 1..Len(h) : h[i] \in ScenarioEvents

\* ------------------------------------------------------------------- Init
Init ==
  /\ pc = "connect"
  /\ result = "none"
  /\ failure = "none"
  /\ reply = "none"
  /\ source = "open"
  /\ windows = <<>>
  /\ processed = <<>>
  /\ calls = <<>>
  /\ log = <<>>

\* ---------------------------------------------------------------- startup
\* let mut socket = Socket::connect()?;
SocketConnect(ok) ==
  /\ pc = "connect"
  /\ IF ok
       THEN pc' = "system_bus" /\ UNCHANGED <<result, failure>>
       ELSE pc' = "done" /\ result' = "Err(connect)" /\ failure' = "connect"
  /\ UNCHANGED <<reply, source, windows, processed, calls, log>>

\* ConnectionSystem with the error dropped instead of propagated:
\* Connection::system().ok()
ConnectionSystem_Swallow(ok) ==
  /\ pc = "system_bus"
  /\ pc' = "proxy"
  /\ failure' = IF ok THEN failure ELSE "system_bus"
  /\ UNCHANGED <<result, reply, source, windows, processed, calls, log>>

\* let conn = Connection::system().map_err(Error::other)?;
ConnectionSystem(ok) ==
  /\ pc = "system_bus"
  /\ IF ok
       THEN pc' = "proxy" /\ UNCHANGED <<result, failure>>
       ELSE pc' = "done" /\ result' = "Err(system_bus)" /\ failure' = "system_bus"
  /\ UNCHANGED <<reply, source, windows, processed, calls, log>>

\* ProxyNew tried again after an error instead of returning it.
ProxyNew_Retry(ok) ==
  /\ pc = "proxy"
  /\ IF ok
       THEN pc' = "subscribe" /\ UNCHANGED failure
       ELSE pc' = "proxy" /\ failure' = "proxy"
  /\ UNCHANGED <<result, reply, source, windows, processed, calls, log>>

\* let proxy = System76SchedulerProxyBlocking::new(&conn).map_err(Error::other)?;
ProxyNew(ok) ==
  /\ pc = "proxy"
  /\ IF ok
       THEN pc' = "subscribe" /\ UNCHANGED <<result, failure>>
       ELSE pc' = "done" /\ result' = "Err(proxy)" /\ failure' = "proxy"
  /\ UNCHANGED <<reply, source, windows, processed, calls, log>>

\* SendEventStream returning an error for a reply that is not Handled.
SendEventStream_Strict(sent, r) ==
  /\ pc = "subscribe"
  /\ IF ~sent
       THEN /\ pc' = "done"
            /\ result' = "Err(send)"
            /\ failure' = "send"
            /\ UNCHANGED <<reply, windows, log>>
       ELSE /\ reply' = r
            /\ UNCHANGED failure
            /\ windows' = <<>>
            /\ IF r # "Handled"
                 THEN /\ pc' = "done"
                      /\ result' = "Err(not_handled)"
                      /\ log' = Append(log, [level |-> "error", msg |-> "not_handled", at |-> 0])
                 ELSE /\ pc' = "streaming"
                      /\ UNCHANGED <<result, log>>
  /\ UNCHANGED <<source, processed, calls>>

\* let reply = socket.send(niri_ipc::Request::EventStream)?; with the check
\* of the reply, let mut windows = Vec::new() and socket.read_events().
\* sent = FALSE is the io::Error of send.
SendEventStream(sent, r) ==
  /\ pc = "subscribe"
  /\ IF ~sent
       THEN /\ pc' = "done"
            /\ result' = "Err(send)"
            /\ failure' = "send"
            /\ UNCHANGED <<reply, windows, log>>
       ELSE /\ pc' = "streaming"
            /\ reply' = r
            /\ UNCHANGED <<result, failure>>
            /\ windows' = <<>>
            /\ log' = IF r # "Handled"
                        THEN Append(log, [level |-> "error", msg |-> "not_handled", at |-> 0])
                        ELSE log
  /\ UNCHANGED <<source, processed, calls>>

\* ------------------------------------------------------------- event loop
\* ReadWindowsChanged with a guard that keeps the old cache when the new
\* list is empty: if !_windows.is_empty() { windows = _windows }
ReadWindowsChanged_KeepOnEmpty(ws) ==
  /\ pc = "streaming"
  /\ source = "open"
  /\ Deliverable(WindowsChanged(ws))
  /\ processed' = Append(processed, WindowsChanged(ws))
  /\ windows' = IF ws = <<>> THEN windows ELSE ws
  /\ UNCHANGED <<pc, result, failure, reply, source, calls, log>>

\* ReadWindowsChanged adding the new list to the cache:
\* windows.extend(_windows)
ReadWindowsChanged_Extend(ws) ==
  /\ pc = "streaming"
  /\ source = "open"
  /\ Deliverable(WindowsChanged(ws))
  /\ processed' = Append(processed, WindowsChanged(ws))
  /\ windows' = windows \o ws
  /\ UNCHANGED <<pc, result, failure, reply, source, calls, log>>

\* ReadWindowsChanged that tells the scheduler again about the window of the
\* last focus change when the new list resolves its id.
ReadWindowsChanged_Renotify(ws) ==
  LET focused == { n \in 1..Len(processed) :
                     processed[n].kind = "WindowFocusChanged" /\ processed[n].id # None }
      last == CHOOSE n \in focused : \A m \in focused : m <= n
      window == IF focused = {} THEN None ELSE Find(ws, processed[last].id[1])
  IN  /\ pc = "streaming"
      /\ source = "open"
      /\ Deliverable(WindowsChanged(ws))
      /\ processed' = Append(processed, WindowsChanged(ws))
      /\ windows' = ws
      /\ calls' = IF window # None /\ window[1].pid # None
                    THEN Append(calls, [pid |-> AsU32(window[1].pid[1]), ok |-> TRUE,
                                        at |-> Len(processed) + 1])
                    ELSE calls
      /\ UNCHANGED <<pc, result, failure, reply, source, log>>

\* Event::WindowsChanged { windows: _windows } => windows = _windows
ReadWindowsChanged(ws) ==
  /\ pc = "streaming"
  /\ source = "open"
  /\ Deliverable(WindowsChanged(ws))
  /\ processed' = Append(processed, WindowsChanged(ws))
  /\ windows' = ws
  /\ UNCHANGED <<pc, result, failure, reply, source, calls, log>>

\* FocusCalls passing the window's id where the pid belongs.
FocusCalls_WindowId(ws, id, callOk, n) ==
  LET window == Find(ws, id)
  IN  IF window # None /\ window[1].pid # None
        THEN << [pid |-> AsU32(window[1].id), ok |-> callOk, at |-> n] >>
        ELSE << >>

\* FocusCalls with a missing pid read as 0: window.pid.unwrap_or_default()
FocusCalls_DefaultPid(ws, id, callOk, n) ==
  LET window == Find(ws, id)
  IN  IF window # None
        THEN << [pid |-> AsU32(IF window[1].pid # None THEN window[1].pid[1] ELSE 0),
                 ok |-> callOk, at |-> n] >>
        ELSE << >>

\* FocusCalls that skips the call when the last call made already carried
\* this pid.
FocusCalls_Dedup(ws, id, callOk, n) ==
  LET window == Find(ws, id)
  IN  IF /\ window # None
         /\ window[1].pid # None
         /\ ~(calls # <<>> /\ calls[Len(calls)].pid = AsU32(window[1].pid[1]))
        THEN << [pid |-> AsU32(window[1].pid[1]), ok |-> callOk, at |-> n] >>
        ELSE << >>

\* What the arm for WindowFocusChanged { id: Some(id) } appends to the calls
\* and to the log when this is event number n and the call returns callOk.
FocusCalls(ws, id, callOk, n) ==
  LET window == Find(ws, id)
  IN  IF window # None /\ window[1].pid # None
        THEN << [pid |-> AsU32(window[1].pid[1]), ok |-> callOk, at |-> n] >>
        ELSE << >>

FocusLogs(ws, id, callOk, n) ==
  LET window == Find(ws, id)
  IN  IF window # None /\ window[1].pid # None
        THEN (IF callOk THEN << >>
              ELSE << [level |-> "error", msg |-> "call_failed", at |-> n] >>)
             \o << [level |-> "info", msg |-> "set_foreground", at |-> n] >>
        ELSE << >>

\* ReadWindowFocusChanged with the call's error propagated:
\* proxy.set_foreground_process(pid as u32).map_err(Error::other)?
ReadWindowFocusChanged_Propagate(id, callOk) ==
  /\ pc = "streaming"
  /\ source = "open"
  /\ Deliverable(WindowFocusChanged(Some(id)))
  /\ callOk \/ FocusCalls(windows, id, callOk, 0) # << >>
  /\ processed' = Append(processed, WindowFocusChanged(Some(id)))
  /\ calls' = calls \o FocusCalls(windows, id, callOk, Len(processed) + 1)
  /\ IF callOk
       THEN /\ log' = log \o FocusLogs(windows, id, callOk, Len(processed) + 1)
            /\ UNCHANGED <<pc, result>>
       ELSE /\ pc' = "done"
            /\ result' = "Err(call)"
            /\ UNCHANGED log
  /\ UNCHANGED <<failure, reply, source, windows>>

\* Event::WindowFocusChanged { id: Some(id) } => find, call, log.  callOk
\* is the outcome of proxy.set_foreground_process when the call is made;
\* when no call is made there is no outcome, and callOk is TRUE.
ReadWindowFocusChanged(id, callOk) ==
  /\ pc = "streaming"
  /\ source = "open"
  /\ Deliverable(WindowFocusChanged(Some(id)))
  /\ callOk \/ FocusCalls(windows, id, callOk, 0) # << >>
  /\ processed' = Append(processed, WindowFocusChanged(Some(id)))
  /\ calls' = calls \o FocusCalls(windows, id, callOk, Len(processed) + 1)
  /\ log' = log \o FocusLogs(windows, id, callOk, Len(processed) + 1)
  /\ UNCHANGED <<pc, result, failure, reply, source, windows>>

\* ReadFocusCleared telling the scheduler that no process is in the
\* foreground: proxy.set_foreground_process(0)
ReadFocusCleared_Reset ==
  /\ pc = "streaming"
  /\ source = "open"
  /\ Deliverable(WindowFocusChanged(None))
  /\ processed' = Append(processed, WindowFocusChanged(None))
  /\ calls' = Append(calls, [pid |-> AsU32(0), ok |-> TRUE, at |-> Len(processed) + 1])
  /\ UNCHANGED <<pc, result, failure, reply, source, windows, log>>

\* _ => () for Event::WindowFocusChanged { id: None }
ReadFocusCleared ==
  /\ pc = "streaming"
  /\ source = "open"
  /\ Deliverable(WindowFocusChanged(None))
  /\ processed' = Append(processed, WindowFocusChanged(None))
  /\ UNCHANGED <<pc, result, failure, reply, source, windows, calls, log>>

\* ReadOtherEvent leaving the loop on an event it does not know: _ => break
ReadOtherEvent_Break ==
  /\ pc = "streaming"
  /\ source = "open"
  /\ Deliverable(OtherEvent)
  /\ processed' = Append(processed, OtherEvent)
  /\ pc' = "done"
  /\ result' = "Ok"
  /\ UNCHANGED <<failure, reply, source, windows, calls, log>>

\* ReadOtherEvent with an event that closes a window handled by removing
\* a record from the cache.
ReadOtherEvent_Remove ==
  /\ pc = "streaming"
  /\ source = "open"
  /\ Deliverable(OtherEvent)
  /\ processed' = Append(processed, OtherEvent)
  /\ windows' = IF windows = <<>> THEN windows ELSE Tail(windows)
  /\ UNCHANGED <<pc, result, failure, reply, source, calls, log>>

\* _ => () for every other event
ReadOtherEvent ==
  /\ pc = "streaming"
  /\ source = "open"
  /\ Deliverable(OtherEvent)
  /\ processed' = Append(processed, OtherEvent)
  /\ UNCHANGED <<pc, result, failure, reply, source, windows, calls, log>>

\* The niri connection is closed or breaks: from now on read_event()
\* returns Err.
SourceEnds ==
  /\ pc = "streaming"
  /\ source = "open"
  /\ source' = "closed"
  /\ UNCHANGED <<pc, result, failure, reply, windows, processed, calls, log>>

\* LoopExit with the read error returned from main: read_event()?
LoopExit_Propagate ==
  /\ pc = "streaming"
  /\ source = "closed"
  /\ pc' = "done"
  /\ result' = "Err(read)"
  /\ UNCHANGED <<failure, reply, source, windows, processed, calls, log>>

\* LoopExit reading again after an error: Err(_) => continue
LoopExit_Retry ==
  /\ pc = "streaming"
  /\ source = "closed"
  /\ UNCHANGED vars

\* while let Ok(event) = read_event() fails to match; Ok(())
LoopExit ==
  /\ pc = "streaming"
  /\ source = "closed"
  /\ pc' = "done"
  /\ result' = "Ok"
  /\ UNCHANGED <<failure, reply, source, windows, processed, calls, log>>

Next ==
  \/ \E ok \in BOOLEAN : SocketConnect(ok)
  \/ \E ok \in BOOLEAN : ConnectionSystem(ok)
  \/ \E ok \in BOOLEAN : ProxyNew(ok)
  \/ \E sent \in BOOLEAN, r \in Replies : SendEventStream(sent, r)
  \/ \E ws \in Snapshots : ReadWindowsChanged(ws)
  \/ \E id \in FocusIds, callOk \in BOOLEAN : ReadWindowFocusChanged(id, callOk)
  \/ ReadFocusCleared
  \/ ReadOtherEvent
  \/ SourceEnds
  \/ LoopExit

Spec == Init /\ [][Next]_vars

\* read_event() on a closed connection returns; the loop then exits.
LiveSpec == Spec /\ WF_vars(LoopExit)

\* main with an event source that delivers window lists of one window whose
\* pid ranges over PidSamples, and focus changes with an id.
NextCast ==
  \/ \E ok \in BOOLEAN : SocketConnect(ok)
  \/ \E ok \in BOOLEAN : ConnectionSystem(ok)
  \/ \E ok \in BOOLEAN : ProxyNew(ok)
  \/ \E sent \in BOOLEAN, r \in Replies : SendEventStream(sent, r)
  \/ \E ws \in SampleSnapshots : ReadWindowsChanged(ws)
  \/ \E id \in FocusIds, callOk \in BOOLEAN : ReadWindowFocusChanged(id, callOk)
  \/ SourceEnds
  \/ LoopExit

SpecCast == Init /\ [][NextCast]_vars

TypeOK ==
  /\ pc \in {"connect", "system_bus", "proxy", "subscribe", "streaming", "done"}
  /\ result \in {"none", "Ok", "Err(connect)", "Err(system_bus)", "Err(proxy)", "Err(send)"}
  /\ Len(log) <= 1 + 2 * Len(processed)
  /\ failure \in {"none", "connect", "system_bus", "proxy", "send"}
  /\ reply \in Replies \cup {"none"}
  /\ source \in {"open", "closed"}
  /\ windows \in SeqsUpTo(Records, MaxLoad) \cup ScenarioSnapshots
  /\ Len(processed) <= MaxLoad \/ Len(processed) <= MaxScenarioEvents
  /\ Len(calls) <= Len(processed)

\* ------------------------------------------------- properties: vocabulary
\* The window list of the most recent WindowsChanged event of the event
\* sequence h, or the empty list when h has none.
RECURSIVE LastSnapshot(_)
LastSnapshot(h) ==
  IF h = <<>> THEN <<>>
  ELSE IF h[Len(h)].kind = "WindowsChanged" THEN h[Len(h)].windows
  ELSE LastSnapshot(SubSeq(h, 1, Len(h) - 1))

\* The window list ws has a record with this id.
HasId(ws, id) == \E i \in 1..Len(ws) : ws[i].id = id

\* The first record of ws with this id (for ws with HasId(ws, id)).
FirstWith(ws, id) ==
  ws[CHOOSE i \in 1..Len(ws) :
       ws[i].id = id /\ \A j \in 1..(i - 1) : ws[j].id # id]

\* A focus change to id resolves to a pid against the window list ws.
Resolves(ws, id) == HasId(ws, id) /\ FirstWith(ws, id).pid # None

\* The positions of the WindowsChanged events in the events processed.
SnapshotPositions ==
  { i \in 1..Len(processed) : processed[i].kind = "WindowsChanged" }

\* This step pulls the event e from the stream.
Pulls(e) == pc = "streaming" /\ processed' = Append(processed, e)

\* ----------------------------------------------------------------- claims
\* C1: after any prefix of the event stream the window cache is the window
\* list of the most recent WindowsChanged event of the prefix, or empty when
\* there is none; a lookup by id finds a record of that list with that id
\* for every id in the list, and nothing for any other id.
C1_CacheIsLatestSnapshot ==
  /\ windows = LastSnapshot(processed)
  /\ \A id \in FocusIds :
       IF HasId(LastSnapshot(processed), id)
         THEN /\ Find(windows, id) # None
              /\ Find(windows, id)[1].id = id
              /\ \E i \in 1..Len(LastSnapshot(processed)) :
                   LastSnapshot(processed)[i] = Find(windows, id)[1]
         ELSE Find(windows, id) = None

\* An id of an earlier window list is gone from the cache after a later
\* list without it (here the later list is empty or has other ids).
C1_Witness ==
  \E i \in SnapshotPositions, j \in SnapshotPositions, id \in FocusIds :
    /\ i < j
    /\ j = Len(processed)
    /\ HasId(processed[i].windows, id)
    /\ ~HasId(processed[j].windows, id)
    /\ Find(windows, id) = None

\* C2: while streaming, a focus change whose id is found in the cache with a
\* pid makes exactly one set_foreground_process call, with that record's
\* pid, in the step that pulls the event, so before the next event is
\* pulled.
C2_FocusCallsOnce ==
  [][ \A id \in FocusIds :
        (Pulls(WindowFocusChanged(Some(id))) /\ Resolves(windows, id))
          => /\ Len(calls') = Len(calls) + 1
             /\ SubSeq(calls', 1, Len(calls)) = calls
             /\ calls'[Len(calls')].pid = AsU32(FirstWith(windows, id).pid[1])
             /\ calls'[Len(calls')].at = Len(processed')
             /\ pc' = "streaming" ]_vars

\* The last event was a focus change, a second window of the list was
\* found, and the one call of that event carries 200.
C2_Witness ==
  /\ Len(processed) >= 2
  /\ processed[Len(processed)] = WindowFocusChanged(Some(2))
  /\ Len(windows) = 2
  /\ windows[1].id = 1
  /\ calls # <<>>
  /\ calls[Len(calls)].pid = U32(200)
  /\ calls[Len(calls)].at = Len(processed)
  /\ Cardinality({ k \in 1..Len(calls) : calls[k].at = Len(processed) }) = 1

\* C3: a focus change whose id is not in the cache makes no call: with an
\* empty cache, and with an id that only an earlier window list had.
C3_AbsentIdNoCall ==
  [][ \A id \in FocusIds :
        (Pulls(WindowFocusChanged(Some(id))) /\ ~HasId(windows, id))
          => calls' = calls ]_vars

\* A focus change to an id of a superseded window list was processed
\* against a cache that is not empty, and no call was made for it.
C3_Witness ==
  \E i \in SnapshotPositions, id \in FocusIds :
    /\ HasId(processed[i].windows, id)
    /\ windows # <<>>
    /\ ~HasId(windows, id)
    /\ processed[Len(processed)] = WindowFocusChanged(Some(id))
    /\ \A k \in 1..Len(calls) : calls[k].at # Len(processed)

\* C4: a focus change whose id is found in the cache in a record without a
\* pid makes no call.
C4_NoPidNoCall ==
  [][ \A id \in FocusIds :
        (/\ Pulls(WindowFocusChanged(Some(id)))
         /\ HasId(windows, id)
         /\ FirstWith(windows, id).pid = None)
          => calls' = calls ]_vars

\* The events were [WindowsChanged([{id 1, no pid}]), WindowFocusChanged(1)]
\* and no call was made.
C4_Witness ==
  /\ processed = << WindowsChanged(<< Window(1, None) >>), WindowFocusChanged(Some(1)) >>
  /\ calls = <<>>

\* The positions of the failed calls.
FailedCalls == { k \in 1..Len(calls) : ~calls[k].ok }

\* C5: a failed set_foreground_process call does not stop or alter the
\* loop: the step makes that one call only, main keeps streaming with no
\* result and the same cache; after a failed call a later call is made for
\* the event being pulled, never again for an earlier one, and a focus
\* change that resolves to a pid still makes its call.
C5_FailedCallContinues ==
  [][ /\ (Len(calls') > Len(calls) /\ ~calls'[Len(calls')].ok)
        => /\ Len(calls') = Len(calls) + 1
           /\ SubSeq(calls', 1, Len(calls)) = calls
           /\ pc = "streaming" /\ pc' = "streaming"
           /\ result' = "none"
           /\ source' = source
           /\ windows' = windows
      /\ (FailedCalls # {} /\ calls' # calls)
        => /\ Len(calls') = Len(calls) + 1
           /\ calls'[Len(calls')].at = Len(processed')
           /\ calls'[Len(calls')].at > calls[Len(calls)].at
      /\ FailedCalls # {}
        => \A id \in FocusIds :
             (Pulls(WindowFocusChanged(Some(id))) /\ Resolves(windows, id))
               => Len(calls') = Len(calls) + 1 ]_vars

\* A call failed, an event was pulled and processed after it, and a later
\* focus change made its call.
C5_Witness ==
  \E k \in FailedCalls, j \in 1..Len(calls) :
    /\ k < j
    /\ calls[k].at + 1 < calls[j].at
    /\ pc = "streaming"
    /\ result = "none"

\* The calls that the sequence h of events asks for: for each focus change
\* with an id, in order, the pid that the id resolves to against the window
\* list most recently received before it, with the event's position.
RECURSIVE ExpectedCalls(_)
ExpectedCalls(h) ==
  IF h = <<>> THEN <<>>
  ELSE LET n == Len(h)
           e == h[n]
           before == SubSeq(h, 1, n - 1)
           snapshot == LastSnapshot(before)
       IN  ExpectedCalls(before) \o
             (IF /\ e.kind = "WindowFocusChanged"
                 /\ e.id # None
                 /\ Resolves(snapshot, e.id[1])
                THEN << [pid |-> AsU32(FirstWith(snapshot, e.id[1]).pid[1]), at |-> n] >>
                ELSE << >>)

\* The calls made, without their outcomes.
CallsMade == [k \in 1..Len(calls) |-> [pid |-> calls[k].pid, at |-> calls[k].at]]

\* [Snapshot({1:100, 2:200}), Focus(1), Focus(2), Snapshot({3:300}), Focus(3)]
ScenarioStream ==
  << WindowsChanged(<< Window(1, Some(100)), Window(2, Some(200)) >>),
     WindowFocusChanged(Some(1)),
     WindowFocusChanged(Some(2)),
     WindowsChanged(<< Window(3, Some(300)) >>),
     WindowFocusChanged(Some(3)) >>

\* C6: the calls made are, in stream order, the pids that the focus changes
\* with an id resolve to against the window list most recently received
\* before each of them, each call made while its event is the last one
\* processed; the scenario stream yields the calls 100, 200, 300.
C6_CallsFollowStream ==
  /\ CallsMade = ExpectedCalls(processed)
  /\ \A k \in 1..Len(calls) : calls[k].at <= Len(processed)
  /\ processed = ScenarioStream
       => [k \in 1..Len(calls) |-> calls[k].pid] = << U32(100), U32(200), U32(300) >>

\* The scenario stream was processed and made three calls.
C6_Witness ==
  /\ processed = ScenarioStream
  /\ Len(calls) = 3
  /\ calls[3] = [pid |-> U32(300), ok |-> TRUE, at |-> 5]

\* C7: once the event stream has ended while main is streaming, main
\* eventually is done with Ok(()), exit code 0; from the end of the stream
\* on no call is made and main returns no error.
C7_StreamEndTerminates ==
  /\ (source = "closed" /\ pc = "streaming")
       ~> (pc = "done" /\ result = "Ok" /\ ExitCode = 0)
  /\ [][ source = "closed"
           => /\ calls' = calls
              /\ processed' = processed
              /\ result' \in {"none", "Ok"} ]_vars

\* main is done with Ok(()) after a stream that had events and made calls.
C7_Witness ==
  /\ pc = "done"
  /\ result = "Ok"
  /\ source = "closed"
  /\ Len(processed) >= 2
  /\ calls # <<>>

\* main has returned an error: the process exits with a failure status.
ExitFailed == pc = "done" /\ ExitCode # 0

\* The subscription request got a reply other than Ok(Response::Handled).
NotHandled == reply \in {"OtherResponse", "ErrReply"}

\* The error message about the subscription request was logged.
NotHandledLogged ==
  \E k \in 1..Len(log) : log[k].level = "error" /\ log[k].msg = "not_handled"

\* C8 as stated: every failure exit is due to a failed connection to the
\* event source or a failed scheduler connection or proxy.
C8_TwoFatalClasses ==
  ExitFailed => failure \in {"connect", "system_bus", "proxy"}

\* C8 amended: every failure exit is due to a failed connection to the
\* event source, a failed scheduler connection or proxy, or an I/O error of
\* the subscription request, and happens before any event is pulled; a
\* reply that is not Handled, a failed call and the end of the stream never
\* make main return an error.
C8_ThreeFatalClasses ==
  /\ ExitFailed
       => /\ failure \in {"connect", "system_bus", "proxy", "send"}
          /\ result = IF failure = "connect" THEN "Err(connect)"
                      ELSE IF failure = "system_bus" THEN "Err(system_bus)"
                      ELSE IF failure = "proxy" THEN "Err(proxy)"
                      ELSE "Err(send)"
          /\ processed = <<>> /\ calls = <<>> /\ reply = "none"
  /\ (NotHandled \/ FailedCalls # {} \/ source = "closed")
       => result \in {"none", "Ok"}

\* main returned the I/O error of the subscription request.
C8_Witness ==
  /\ ExitFailed
  /\ failure = "send"
  /\ result = "Err(send)"

\* C9 as stated: after a failed startup call, and after a subscription
\* request that was not acknowledged as handled, main is done with an
\* error and has pulled no event.
C9_AnyConnectingFailureFatal ==
  (failure # "none" \/ NotHandled)
    => (pc = "done" /\ ExitCode # 0 /\ processed = <<>>)

\* C9 amended: after a failed connection to the event source, a failed
\* scheduler connection or proxy, or an I/O error of the subscription
\* request, main is done with an error, never streams and pulls no event; a
\* reply that is not Handled is no such failure.
C9_StartupFailureFatal ==
  /\ failure # "none"
       => /\ pc = "done"
          /\ ExitCode # 0
          /\ processed = <<>> /\ calls = <<>> /\ windows = <<>>
  /\ NotHandled => failure = "none"
  /\ pc = "streaming" => failure = "none"

\* The system bus connection failed and main is done with that error.
C9_Witness ==
  /\ failure = "system_bus"
  /\ pc = "done"
  /\ result = "Err(system_bus)"

\* C10: after a reply other than Handled the error is logged, once and
\* before anything else, main does not return an error and streams until
\* the stream ends, and the events pulled are processed as after a Handled
\* reply: the cache is the latest window list and the calls made are the
\* ones the events ask for.
C10_NotHandledStillStreams ==
  /\ NotHandled
       => /\ NotHandledLogged
          /\ log[1] = [level |-> "error", msg |-> "not_handled", at |-> 0]
          /\ \A k \in 2..Len(log) : log[k].msg # "not_handled"
          /\ failure = "none"
          /\ result \in {"none", "Ok"}
          /\ pc \in {"streaming", "done"}
          /\ source = "open" => pc = "streaming"
          /\ windows = LastSnapshot(processed)
          /\ CallsMade = ExpectedCalls(processed)
  /\ NotHandledLogged => NotHandled

\* After an Err reply main streamed, replaced its cache and made a call.
C10_Witness ==
  /\ reply = "ErrReply"
  /\ NotHandledLogged
  /\ pc = "streaming"
  /\ windows # <<>>
  /\ calls # <<>>
  /\ calls[Len(calls)].at = Len(processed)

\* The messages of a level logged while event number n was processed.
LoggedAt(level, n) ==
  { k \in 1..Len(log) : log[k].level = level /\ log[k].at = n }

\* The calls made while event number n was processed.
CallsAt(n) == { k \in 1..Len(calls) : calls[k].at = n }

\* C11: for every event processed, an informational message is logged if
\* and only if the set_foreground_process call for that event succeeded; a
\* failed call logs an error and no informational message.
C11_InfoOnlyOnSuccess ==
  \A n \in 1..Len(processed) :
    /\ (LoggedAt("info", n) # {}) <=> (\E k \in CallsAt(n) : calls[k].ok)
    /\ (\E k \in CallsAt(n) : ~calls[k].ok)
         => (LoggedAt("error", n) # {} /\ LoggedAt("info", n) = {})

\* The startup call that main makes at pc, for the three calls whose error
\* main returns before it sends the subscription request.
StartupCall ==
  IF pc = "connect" THEN "connect"
  ELSE IF pc = "system_bus" THEN "system_bus"
  ELSE IF pc = "proxy" THEN "proxy"
  ELSE "none"

\* C12: when the connection to the event source, the system bus connection
\* or the proxy construction fails, that step ends main with the error: no
\* other startup call is made, the subscription request is not sent, no
\* event is pulled, no call is made, and nothing happens afterwards (no
\* retry).
C12_StartupFailureAborts ==
  [][ /\ (failure = "none" /\ failure' \in {"connect", "system_bus", "proxy"})
        => /\ failure' = StartupCall
           /\ pc' = "done"
           /\ result' \notin {"none", "Ok"}
           /\ UNCHANGED <<reply, source, windows, processed, calls, log>>
           /\ reply = "none" /\ processed = <<>> /\ calls = <<>>
      /\ failure \notin {"connect", "system_bus", "proxy"} ]_vars

\* The proxy construction failed after two successful connections: main is
\* done with that error, having sent no request and pulled no event.
C12_Witness ==
  /\ failure = "proxy"
  /\ pc = "done"
  /\ result = "Err(proxy)"
  /\ ExitCode # 0
  /\ reply = "none"
  /\ processed = <<>>
  /\ calls = <<>>

\* C13: a step taken while streaming either keeps main streaming, with no
\* result, or ends main with Ok(()); the latter only when the stream has
\* ended, and it changes nothing else.
C13_StreamingLeavesOnlyAtEnd ==
  [][ pc = "streaming"
        => \/ pc' = "streaming" /\ result' = "none"
           \/ /\ pc' = "done"
              /\ result' = "Ok"
              /\ source = "closed"
              /\ UNCHANGED <<failure, reply, source, windows, processed, calls, log>> ]_vars

\* main is still streaming after a window list, a failed call, an event of
\* another kind and a focus change without id.
C13_Witness ==
  /\ pc = "streaming"
  /\ result = "none"
  /\ FailedCalls # {}
  /\ SnapshotPositions # {}
  /\ \E n \in 1..Len(processed) : processed[n] = OtherEvent
  /\ \E n \in 1..Len(processed) : processed[n] = WindowFocusChanged(None)

\* C14: a focus change without id makes no call, logs nothing and leaves
\* the cache unchanged; the last call made stays the last one.
C14_FocusClearedNoAction ==
  [][ Pulls(WindowFocusChanged(None))
        => /\ calls' = calls
           /\ log' = log
           /\ windows' = windows
           /\ pc' = "streaming" ]_vars

\* After a call for pid 100 a focus change without id was processed: the
\* call for 100 is still the last call and the cache still holds its window.
C14_Witness ==
  /\ Len(processed) >= 3
  /\ processed[Len(processed)] = WindowFocusChanged(None)
  /\ calls # <<>>
  /\ calls[Len(calls)].pid = U32(100)
  /\ calls[Len(calls)].at = Len(processed) - 1
  /\ windows # <<>>

\* C15: an event that is neither a window list nor a focus change leaves
\* cache, calls and log unchanged and main streaming; and the cache changes
\* only in a step that pulls a WindowsChanged event, to that event's list.
C15_OtherEventsIgnored ==
  [][ /\ Pulls(OtherEvent)
        => /\ windows' = windows
           /\ calls' = calls
           /\ log' = log
           /\ pc' = "streaming"
           /\ source' = "open"
      /\ windows' # windows
        => /\ Len(processed') = Len(processed) + 1
           /\ processed'[Len(processed')] = WindowsChanged(windows') ]_vars

\* An event of another kind was processed after a window list and before a
\* focus change: the cache is still that list and the focus change resolved.
C15_Witness ==
  \E n \in 2..Len(processed) :
    /\ processed[n] = OtherEvent
    /\ processed[n - 1].kind = "WindowsChanged"
    /\ processed[n - 1].windows # <<>>
    /\ windows = processed[n - 1].windows
    /\ CallsAt(n) = {}
    /\ n < Len(processed)
    /\ CallsAt(n + 1) # {}

\* The positions of the focus changes that carry an id.
FocusPositions ==
  { n \in 1..Len(processed) :
      processed[n].kind = "WindowFocusChanged" /\ processed[n].id # None }

\* C16: every call is made for a focus change with an id, at most one per
\* such event, and resolves against the window list received before it: a
\* WindowsChanged event has no call, also when it brings the window of an
\* earlier focus change; so the calls are at most as many as the focus
\* changes with an id.
C16_CallsOnlyOnFocus ==
  /\ \A k \in 1..Len(calls) :
       /\ calls[k].at \in FocusPositions
       /\ Resolves(LastSnapshot(SubSeq(processed, 1, calls[k].at - 1)),
                   processed[calls[k].at].id[1])
  /\ \A n \in 1..Len(processed) : Cardinality(CallsAt(n)) <= 1
  /\ \A n \in SnapshotPositions : CallsAt(n) = {}
  /\ Len(calls) <= Cardinality(FocusPositions)

\* A focus change to window 1 came before the first list with window 1 and
\* its pid: neither event made a call.
C16_Witness ==
  /\ Len(processed) = 2
  /\ processed[1] = WindowFocusChanged(Some(1))
  /\ processed[2] = WindowsChanged(<< Window(1, Some(100)) >>)
  /\ calls = <<>>
  /\ pc = "streaming"

\* C17: a focus change that resolves to a pid makes its call also when a
\* call with the same pid was made before, whether that call succeeded or
\* failed.
C17_NoDeduplication ==
  [][ \A id \in FocusIds :
        (/\ Pulls(WindowFocusChanged(Some(id)))
         /\ Resolves(windows, id)
         /\ \E k \in 1..Len(calls) :
              calls[k].pid = AsU32(FirstWith(windows, id).pid[1]))
          => /\ Len(calls') = Len(calls) + 1
             /\ calls'[Len(calls')].pid = AsU32(FirstWith(windows, id).pid[1])
             /\ calls'[Len(calls')].at = Len(processed') ]_vars

\* Three focus changes to the same window, the second right after the first
\* and the third not right after the second, made three calls with the same
\* pid, of which the first failed and the second succeeded.
C17_Witness ==
  \E i \in 1..Len(calls), j \in 1..Len(calls), k \in 1..Len(calls) :
    /\ i < j /\ j < k
    /\ calls[i].pid = calls[j].pid /\ calls[j].pid = calls[k].pid
    /\ processed[calls[i].at] = processed[calls[j].at]
    /\ processed[calls[j].at] = processed[calls[k].at]
    /\ calls[j].at = calls[i].at + 1
    /\ calls[k].at > calls[j].at + 1
    /\ ~calls[i].ok
    /\ calls[j].ok

\* The pid of the record that the focus change at position n resolves to.
ResolvedPid(n) ==
  FirstWith(LastSnapshot(SubSeq(processed, 1, n - 1)), processed[n].id[1]).pid[1]

\* C18: the argument of every call is the resolved record's i32 pid as an
\* unsigned 32-bit value: the pid itself when it is 0 or more, the pid plus
\* 2^32 when it is negative; a focus change that resolves to a negative pid
\* makes its call like any other, and main returns no error.
C18_PidAsU32 ==
  /\ \A k \in 1..Len(calls) :
       LET p == ResolvedPid(calls[k].at)
           arg == calls[k].pid
       IN  /\ arg.hi \in 0..65535
           /\ arg.lo \in 0..65535
           /\ p >= 0 => (arg.hi < 32768 /\ arg.hi * 65536 + arg.lo = p)
           /\ p < 0 => (arg.hi >= 32768 /\ (arg.hi - 65536) * 65536 + arg.lo = p)
  /\ \A n \in FocusPositions :
       Resolves(LastSnapshot(SubSeq(processed, 1, n - 1)), processed[n].id[1])
         => Cardinality(CallsAt(n)) = 1
  /\ calls # <<>> => result \in {"none", "Ok"}

\* A call was made for the smallest i32, -2^31: its argument is 2^31
\* (halves 32768 and 0).
C18_Witness ==
  \E k \in 1..Len(calls) :
    /\ ResolvedPid(calls[k].at) = -2147483647 - 1
    /\ calls[k].pid = [hi |-> 32768, lo |-> 0]
    /\ pc = "streaming"

\* The positions of the records of ws with this id.
PositionsOf(ws, id) == { i \in 1..Len(ws) : ws[i].id = id }

\* C19: when the cache has several records with the id of a focus change,
\* the first of them in list order decides: without a pid no call is made,
\* also when a later record has one, and with a pid exactly one call is
\* made, with that pid.
C19_FirstDuplicateWins ==
  [][ \A id \in FocusIds :
        (/\ Pulls(WindowFocusChanged(Some(id)))
         /\ Cardinality(PositionsOf(windows, id)) >= 2)
          => LET first == CHOOSE i \in PositionsOf(windows, id) :
                            \A j \in PositionsOf(windows, id) : i <= j
             IN  IF windows[first].pid = None
                   THEN calls' = calls
                   ELSE /\ Len(calls') = Len(calls) + 1
                        /\ SubSeq(calls', 1, Len(calls)) = calls
                        /\ calls'[Len(calls')].pid = AsU32(windows[first].pid[1])
                        /\ calls'[Len(calls')].at = Len(processed') ]_vars

\* With the cache [{1, no pid}, {1, pid 100}] a focus change to 1 made no
\* call.
C19_Witness ==
  /\ processed = << WindowsChanged(<< Window(1, None), Window(1, Some(100)) >>),
                    WindowFocusChanged(Some(1)) >>
  /\ calls = <<>>
====
